---- MODULE Spec2Model ----
(***************************************************************************)
(* Model of mercator_data/volatility.py: add_range_vol_features and the    *)
(* three series functions it calls (log_returns, parkinson_vol,            *)
(* garman_klass_vol), together with the pandas operations the code rests   *)
(* on (groupby(...).apply, sort_values, rolling(window).sum, clip, pow).   *)
(*                                                                         *)
(* Numbers.  A price is a power of two, 2^e, held as its exponent e, or    *)
(* NaN.  Then ln(a/b) = (ea - eb) * ln 2 exactly, and every derived value  *)
(* is an integer in a fixed unit:                                          *)
(*   ret_log_1d            in units of ln 2                                *)
(*   Parkinson terms/sums  in units of (ln 2)^2 / (4 ln 2) = ln 2 / 4      *)
(*   Garman-Klass sums     in thousandths of (ln 2)^2                      *)
(* A number is Num(n), the missing value NaN; a square root is held by    *)
(* its radicand: Root(s) stands for sqrt(s).                               *)
(***************************************************************************)
EXTENDS Integers, Sequences, FiniteSets, TLC

VARIABLES pc, df, cols, window, tieOrder, keys, values, mutated, out, err

vars == <<pc, df, cols, window, tieOrder, keys, values, mutated, out, err>>

(* ---------------- bounds of the model ---------------- *)
MaxRows == 3
MaxWindow == 2

(* ---------------- values ---------------- *)
NaN == [kind |-> "nan", v |-> 0]

Num(n) == [kind |-> "num", v |-> n]

Root(s) == [kind |-> "root", v |-> s]

IsNaN(x) == x.kind = "nan"

Required == {"date", "Ticker", "Open", "High", "Low", "Close"}

Features == {"ret_log_1d", "vol_pk", "vol_gk"}

NoTicker == "NaN"

TickerOrder == <<"A", "B">>

Tickers == {"A", "B", NoTicker}

Dates == {1, 2}

Bar(o, h, l, c) == [Open |-> o, High |-> h, Low |-> l, Close |-> c]

FlatBar == Bar(Num(0), Num(0), Num(0), Num(0))

UpBar == Bar(Num(0), Num(1), Num(0), Num(1))

BodyBar == Bar(Num(0), Num(1), Num(1), Num(1))

BadBar == Bar(Num(0), Num(0), Num(0), NaN)

NoErr == [type |-> "none", key |-> "none"]

KeyError(c) == [type |-> "KeyError", key |-> c]

NoTable == [returned |-> FALSE, columns |-> {}, rows |-> <<>>]

Table(c, r) == [returned |-> TRUE, columns |-> c, rows |-> r]

(* ---------------- arithmetic with NaN ---------------- *)
\* high / low, close / open: a quotient of powers of two
Div(a, b) == IF IsNaN(a) \/ IsNaN(b) THEN NaN ELSE Num(a.v - b.v)

\* np.log of 2^e, in units of ln 2
Log(a) == IF IsNaN(a) THEN NaN ELSE Num(a.v)

Sub(a, b) == IF IsNaN(a) \/ IsNaN(b) THEN NaN ELSE Num(a.v - b.v)

Sq(a) == IF IsNaN(a) THEN NaN ELSE Num(a.v * a.v)

\* Series.pow(0.5): NaN stays NaN, a negative base gives NaN
Pow05(s) == IF IsNaN(s) THEN NaN ELSE IF s.v < 0 THEN NaN ELSE Root(s.v)

\* no clip before the square root
NoClip(s) == s

\* Series.clip(lower=0): NaN stays NaN
ClipLower0(s) == IF IsNaN(s) THEN NaN ELSE IF s.v < 0 THEN Num(0) ELSE s

\* 0.5 and 2 ln 2 - 1 = 0.386..., in thousandths
GK_HALF_MILLI == 500

GK_COEF_MILLI == 386

RECURSIVE SumRange(_, _, _)
SumRange(s, lo, hi) == IF lo > hi THEN 0 ELSE s[hi].v + SumRange(s, lo, hi - 1)

\* rolling(w, min_periods=1).sum(): a sum as soon as one observation is there
RollingSumMinPeriods1(s, w) ==
  [i \in 1..Len(s) |->
     LET lo == IF i < w THEN 1 ELSE i - w + 1
     IN  IF \E j \in lo..i : IsNaN(s[j]) THEN NaN ELSE Num(SumRange(s, lo, i))]

\* expanding(w).sum(): days never leave the window
RollingSumExpanding(s, w) ==
  [i \in 1..Len(s) |->
     IF i < w THEN NaN
     ELSE IF \E j \in 1..i : IsNaN(s[j]) THEN NaN
     ELSE Num(SumRange(s, 1, i))]

\* Series.rolling(w).sum(): min_periods = w, and NaN observations do not count
RollingSum(s, w) ==
  [i \in 1..Len(s) |->
     IF i < w THEN NaN
     ELSE IF \E j \in (i - w + 1)..i : IsNaN(s[j]) THEN NaN
     ELSE Num(SumRange(s, i - w + 1, i))]

(* ---------------- the series functions ---------------- *)
\* the first difference filled with 0
LogReturnsFilled(close) ==
  [i \in 1..Len(close) |->
     IF i = 1 THEN Num(0) ELSE Sub(Log(close[i]), Log(close[i - 1]))]

log_returns(close) ==
  [i \in 1..Len(close) |-> IF i = 1 THEN NaN ELSE Sub(Log(close[i]), Log(close[i - 1]))]

\* coef * rng ** 2 with coef = 1 / (4 ln 2), in units of ln 2 / 4
PkTerms(high, low) == [i \in 1..Len(high) |-> Sq(Log(Div(high[i], low[i])))]

PkSums(high, low, w) == RollingSum(PkTerms(high, low), w)

parkinson_vol(high, low, w) ==
  LET sums == PkSums(high, low, w)
  IN  [i \in 1..Len(high) |-> Pow05(sums[i])]

GkTerm(o, h, l, c) ==
  LET hl == Sq(Log(Div(h, l)))
      co == Sq(Log(Div(c, o)))
  IN  IF IsNaN(hl) \/ IsNaN(co) THEN NaN
      ELSE Num(GK_HALF_MILLI * hl.v - GK_COEF_MILLI * co.v)

GkTerms(open, high, low, close) ==
  [i \in 1..Len(high) |-> GkTerm(open[i], high[i], low[i], close[i])]

GkSums(open, high, low, close, w) == RollingSum(GkTerms(open, high, low, close), w)

garman_klass_vol(open, high, low, close, w) ==
  LET sums == GkSums(open, high, low, close, w)
  IN  [i \in 1..Len(high) |-> Pow05(ClipLower0(sums[i]))]

(* ---------------- frames ---------------- *)
\* A frame is a sequence of rows; a row is a function over the frame's columns
\* and "idx", its index label (the row's position in the input table).
Column(x, c) == [i \in 1..Len(x) |-> x[i][c]]

Index(x) == Column(x, "idx")

TieOrders == {"kept", "reversed"}

\* Does row j come before row i in the sorted frame?  kind="quicksort" is not a
\* stable sort: the order of rows with equal dates is whatever the build yields.
SortsBefore(x, j, i, tie) ==
  \/ x[j].date < x[i].date
  \/ /\ x[j].date = x[i].date
     /\ IF tie = "kept" THEN j < i ELSE j > i

SortValues(x, tie) ==
  LET rank(i) == Cardinality({j \in 1..Len(x) : SortsBefore(x, j, i, tie)}) + 1
  IN  [p \in 1..Len(x) |-> x[CHOOSE i \in 1..Len(x) : rank(i) = p]]

\* x.sort_values("date", inplace=True): the group, and the table behind it, is written
SortedInPlace(x, tie) == [rows |-> SortValues(x, tie), shared |-> TRUE]

\* x.sort_values("date").copy(): a new frame, sharing nothing with the group
SortedCopy(x, tie) == [rows |-> SortValues(x, tie), shared |-> FALSE]

\* the columns _by_ticker reads, in the order it reads them
AccessOrder == <<"date", "Close", "High", "Low", "Open">>

FirstMissing(c) ==
  LET miss == SelectSeq(AccessOrder, LAMBDA k : k \notin c)
  IN  IF miss = <<>> THEN "none" ELSE Head(miss)

AddFeatures(x, w) ==
  LET ret == log_returns(Column(x, "Close"))
      pk  == parkinson_vol(Column(x, "High"), Column(x, "Low"), w)
      gk  == garman_klass_vol(Column(x, "Open"), Column(x, "High"),
                              Column(x, "Low"), Column(x, "Close"), w)
  IN  [i \in 1..Len(x) |->
         x[i] @@ ("ret_log_1d" :> ret[i]) @@ ("vol_pk" :> pk[i]) @@ ("vol_gk" :> gk[i])]

_by_ticker(x, c, w, tie) ==
  IF FirstMissing(c) # "none"
  THEN [err |-> KeyError(FirstMissing(c)), frame |-> <<>>, shared |-> FALSE]
  ELSE LET s == SortedCopy(x, tie)
       IN  [err |-> NoErr, frame |-> AddFeatures(s.rows, w), shared |-> s.shared]

(* ---------------- groupby("Ticker", group_keys=False).apply ---------------- *)
\* sort=True: the keys in ascending order; dropna=True: a missing key is no group
GroupKeys(d) ==
  SelectSeq(TickerOrder, LAMBDA k : \E i \in 1..Len(d) : d[i].Ticker = k)

\* every group holds the rows of every instrument
AllRows(d, k) == SelectSeq(d, LAMBDA r : r.Ticker # NoTicker)

GroupRows(d, k) == SelectSeq(d, LAMBDA r : r.Ticker = k)

Grouped(d) == SelectSeq(d, LAMBDA r : r.Ticker # NoTicker)

IsIndexedLike(res, group) == Index(res) = Index(group)

RECURSIVE Concat(_)
Concat(vals) == IF vals = <<>> THEN <<>> ELSE Head(vals) \o Concat(Tail(vals))

Reindex(x, ax) ==
  [p \in 1..Len(ax) |-> x[CHOOSE i \in 1..Len(x) : x[i].idx = ax[p]]]

\* _wrap_applied_output / _concat_objects
ConcatObjects(vals, mut, d, c) ==
  IF vals = <<>> THEN Table(c, <<>>)
  ELSE IF mut THEN Table(c \cup Features, Concat(vals))
  ELSE Table(c \cup Features, Reindex(Concat(vals), Index(Grouped(d))))

\* what the caller's table holds after _by_ticker has run on the group
InputAfter(d, r) ==
  IF r.shared
  THEN LET pos == SelectSeq([i \in 1..Len(d) |-> i],
                            LAMBDA i : \E j \in 1..Len(r.frame) : r.frame[j].idx = d[i].idx)
       IN  [i \in 1..Len(d) |->
              IF \E q \in 1..Len(pos) : pos[q] = i
              THEN r.frame[CHOOSE q \in 1..Len(pos) : pos[q] = i]
              ELSE d[i]]
  ELSE d

(* ---------------- the call, step by step ---------------- *)
GroupBy ==
  /\ pc = "start"
  /\ IF "Ticker" \notin cols
     THEN /\ pc' = "failed"
          /\ err' = KeyError("Ticker")
          /\ UNCHANGED keys
     ELSE /\ pc' = "apply"
          /\ keys' = GroupKeys(df)
          /\ UNCHANGED err
  /\ UNCHANGED <<df, cols, window, tieOrder, values, mutated, out>>

ByTicker ==
  /\ pc = "apply"
  /\ keys # <<>>
  /\ LET group == GroupRows(df, Head(keys))
         r     == _by_ticker(group, cols, window, tieOrder)
     IN  IF r.err # NoErr
         THEN /\ pc' = "failed"
              /\ err' = r.err
              /\ UNCHANGED <<df, keys, values, mutated>>
         ELSE /\ values' = Append(values, r.frame)
              /\ mutated' = (mutated \/ ~IsIndexedLike(r.frame, group))
              /\ keys' = Tail(keys)
              /\ df' = InputAfter(df, r)
              /\ UNCHANGED <<pc, err>>
  /\ UNCHANGED <<cols, window, tieOrder, out>>

Return ==
  /\ pc = "apply"
  /\ keys = <<>>
  /\ out' = ConcatObjects(values, mutated, df, cols)
  /\ pc' = "done"
  /\ UNCHANGED <<df, cols, window, tieOrder, keys, values, mutated, err>>

Next == GroupBy \/ ByTicker \/ Return

(* ---------------- inputs ---------------- *)
DataRows(T, B) ==
  {[Ticker |-> t, date |-> d, Open |-> b.Open, High |-> b.High, Low |-> b.Low,
    Close |-> b.Close] : t \in T, d \in Dates, b \in B}

Tables(R) == UNION {[1..n -> R] : n \in 0..MaxRows}

\* the table as the caller holds it: columns c, index 1..n
Frame(t, c) == [i \in 1..Len(t) |-> [k \in c \cup {"idx"} |-> IF k = "idx" THEN i ELSE t[i][k]]]

InitCall(R, C) ==
  /\ pc = "start"
  /\ cols \in C
  /\ \E t \in Tables(R) : df = Frame(t, cols)
  /\ window \in 1..MaxWindow
  /\ tieOrder \in TieOrders
  /\ keys = <<>>
  /\ values = <<>>
  /\ mutated = FALSE
  /\ out = NoTable
  /\ err = NoErr

\* every required column but at most one
ColumnSets == {Required} \cup {Required \ {c} : c \in Required}

\* tables of any instruments, missing ids and missing prices included
Init == InitCall(DataRows(Tickers, {UpBar, BadBar}), {Required})

Spec == Init /\ [][Next]_vars

\* tables of two instruments with valid positive prices
InitSeries == InitCall(DataRows({"A", "B"}, {FlatBar, UpBar, BodyBar}), {Required})

SpecSeries == InitSeries /\ [][Next]_vars

\* tables that may lack a required column
InitCols == InitCall(DataRows(Tickers, {UpBar}), ColumnSets)

SpecCols == InitCols /\ [][Next]_vars

(* ---------------- the whole call as a function of its input ---------------- *)
RECURSIVE ApplyGroupwise(_, _, _, _, _, _)
ApplyGroupwise(ks, d, c, w, tie, acc) ==
  IF ks = <<>> THEN acc
  ELSE LET group == GroupRows(d, Head(ks))
           r     == _by_ticker(group, c, w, tie)
       IN  ApplyGroupwise(Tail(ks), d, c, w, tie,
                          [values  |-> Append(acc.values, r.frame),
                           mutated |-> acc.mutated \/ ~IsIndexedLike(r.frame, group)])

\* the table returned for an input with every required column
add_range_vol_features(d, c, w, tie) ==
  LET a == ApplyGroupwise(GroupKeys(d), d, c, w, tie, [values |-> <<>>, mutated |-> FALSE])
  IN  ConcatObjects(a.values, a.mutated, d, c)

(* ---------------- properties ---------------- *)
Instruments == Tickers \ {NoTicker}

OutRowsOf(k) == SelectSeq(out.rows, LAMBDA r : r.Ticker = k)

InRowsOf(k) == SelectSeq(df, LAMBDA r : r.Ticker = k)

Prices == {"Open", "High", "Low", "Close"}

ValidRow(r) == \A c \in Prices : r[c].kind = "num"

ValidRows(x, lo, hi) == \A i \in lo..hi : ValidRow(x[i])

Data(r) == [k \in (DOMAIN r) \ {"idx"} |-> r[k]]

DataRowsOf(x) == [i \in 1..Len(x) |-> Data(x[i])]

\* C1: when the call returns, the output has exactly as many rows as the input
\* and every input row (by its index label) appears exactly once in it, rows
\* with a missing instrument id or a missing price included.
C1_RowsPreserved ==
  pc = "done" =>
    /\ Len(out.rows) = Len(df)
    /\ \A i \in 1..Len(df) :
         Cardinality({p \in 1..Len(out.rows) : out.rows[p].idx = df[i].idx}) = 1

\* C2: in the output the rows of each instrument are in ascending date order,
\* and rows of one instrument with equal dates keep their input order.
C2_StableDateOrder ==
  pc = "done" =>
    \A p, q \in 1..Len(out.rows) :
      (p < q /\ out.rows[p].Ticker = out.rows[q].Ticker) =>
        \/ out.rows[p].date < out.rows[q].date
        \/ /\ out.rows[p].date = out.rows[q].date
           /\ out.rows[p].idx < out.rows[q].idx

\* C3: a table that lacks a required column never yields a table: the call
\* does not return, and when it has ended it has ended with the error raised
\* for the missing column (pandas' KeyError) and no output.
C3_MissingColumnFails ==
  (cols # Required) =>
    /\ pc # "done"
    /\ out = NoTable
    /\ (pc = "failed" => err.type = "KeyError" /\ err.key \in Required \ cols)

\* C7: a zero-row table with every required column is no error, and the table
\* returned for it has zero rows and the input columns plus ret_log_1d, vol_pk
\* and vol_gk.
C7_EmptyInput ==
  (Len(df) = 0 /\ cols = Required) =>
    /\ pc # "failed"
    /\ (pc = "done" => out.rows = <<>> /\ out.columns = cols \cup Features)

\* C4: for an instrument whose prices are all valid, vol_pk and vol_gk are
\* undefined on exactly the first window-1 rows of that instrument, counted
\* within the instrument, and defined on every later row.
C4_UndefinedExactlyFirstRows ==
  pc = "done" =>
    \A k \in Instruments :
      LET x == OutRowsOf(k)
      IN  ValidRows(x, 1, Len(x)) =>
            \A j \in 1..Len(x) :
              /\ IsNaN(x[j].vol_pk) <=> (j < window)
              /\ IsNaN(x[j].vol_gk) <=> (j < window)

\* an instrument with fewer rows than the window, followed in the table by one
\* with enough rows
C4_Witness ==
  /\ pc = "done"
  /\ window = 2
  /\ Len(df) = 3
  /\ df[1].Ticker = "A" /\ df[2].Ticker = "B" /\ df[3].Ticker = "B"
  /\ IsNaN(OutRowsOf("A")[1].vol_pk)
  /\ IsNaN(OutRowsOf("B")[1].vol_gk)
  /\ ~IsNaN(OutRowsOf("B")[2].vol_pk)
  /\ ~IsNaN(OutRowsOf("B")[2].vol_gk)

RECURSIVE GkWindow(_, _, _)
GkWindow(x, lo, hi) ==
  IF lo > hi THEN 0
  ELSE LET hl == x[hi].High.v - x[hi].Low.v
           co == x[hi].Close.v - x[hi].Open.v
       IN  (500 * hl * hl - 386 * co * co) + GkWindow(x, lo, hi - 1)

\* C5: where the trailing window holds valid prices, vol_gk is sqrt(0) when the
\* window's sum S of Garman-Klass terms is negative and sqrt(S) otherwise; no
\* defined vol_gk is negative.
C5_ClampedAtZero ==
  pc = "done" =>
    \A k \in Instruments :
      LET x == OutRowsOf(k)
      IN  \A j \in 1..Len(x) :
            /\ (j >= window /\ ValidRows(x, j - window + 1, j)) =>
                 LET S == GkWindow(x, j - window + 1, j)
                 IN  x[j].vol_gk = Root(IF S < 0 THEN 0 ELSE S)
            /\ ~IsNaN(x[j].vol_gk) => (x[j].vol_gk.kind = "root" /\ x[j].vol_gk.v >= 0)

\* one row whose window sum is negative and one whose window sum is positive
C5_Witness ==
  /\ pc = "done"
  /\ \E k \in Instruments :
       LET x == OutRowsOf(k)
       IN  /\ \E j \in window..Len(x) :
                /\ GkWindow(x, j - window + 1, j) < 0
                /\ x[j].vol_gk = Root(0)
           /\ \E j \in window..Len(x) :
                /\ GkWindow(x, j - window + 1, j) > 0
                /\ x[j].vol_gk.v > 0

\* C6: ret_log_1d is undefined on an instrument's first row and, on each later
\* row, is ln(close) minus ln(close of the instrument's preceding row).
C6_LogReturnPerInstrument ==
  pc = "done" =>
    \A k \in Instruments :
      LET x == OutRowsOf(k)
      IN  \A j \in 1..Len(x) :
            x[j].ret_log_1d =
              IF j = 1 THEN NaN
              ELSE IF x[j].Close.kind = "num" /\ x[j - 1].Close.kind = "num"
                   THEN Num(x[j].Close.v - x[j - 1].Close.v)
                   ELSE NaN

\* the rows of two instruments interleaved; one instrument has a constant
\* close, the other a close that moves
C6_Witness ==
  /\ pc = "done"
  /\ Len(df) = 3
  /\ df[1].Ticker = "B" /\ df[2].Ticker = "A" /\ df[3].Ticker = "B"
  /\ df[1].date < df[3].date
  /\ df[1].Close # df[2].Close
  /\ df[1].Close = df[3].Close
  /\ OutRowsOf("B")[2].ret_log_1d = Num(0)
  /\ IsNaN(OutRowsOf("A")[1].ret_log_1d)

\* C8: the output rows of an instrument, their order and their values, are those
\* the call yields on the table that holds that instrument's rows alone.
C8_InstrumentsIndependent ==
  pc = "done" =>
    \A k \in Instruments :
      DataRowsOf(OutRowsOf(k)) =
        DataRowsOf(add_range_vol_features(InRowsOf(k), cols, window, tieOrder).rows)

\* two instruments interleaved in the input, one of them re-sorted
C8_Witness ==
  /\ pc = "done"
  /\ mutated
  /\ Len(df) = 3
  /\ df[1].Ticker = "B" /\ df[2].Ticker = "A" /\ df[3].Ticker = "B"
  /\ window = 2
  /\ ~IsNaN(OutRowsOf("B")[2].vol_pk)

\* C9: no step of the call changes the input table or its columns.
C9_InputUnchanged == [][df' = df /\ cols' = cols]_vars

\* the call has returned a table whose rows are ordered unlike the input's
C9_Witness ==
  /\ pc = "done"
  /\ Len(out.rows) = Len(df)
  /\ Len(df) > 1
  /\ Index(out.rows) # Index(df)
  /\ \A i \in 1..Len(df) : DOMAIN df[i] = cols \cup {"idx"}

\* C10: with valid prices, vol_pk is undefined before the window is full, then
\* sqrt(0) exactly when high = low on every day of the trailing window, and
\* positive exactly when some day of the trailing window has high # low.
C10_TrailingWindow ==
  pc = "done" =>
    \A k \in Instruments :
      LET x == OutRowsOf(k)
      IN  ValidRows(x, 1, Len(x)) =>
            \A j \in 1..Len(x) :
              IF j < window THEN IsNaN(x[j].vol_pk)
              ELSE LET flat == \A i \in (j - window + 1)..j : x[i].High = x[i].Low
                   IN  /\ x[j].vol_pk.kind = "root"
                       /\ flat <=> (x[j].vol_pk.v = 0)
                       /\ ~flat <=> (x[j].vol_pk.v > 0)

\* a day with a range enters the window and later leaves it
C10_Witness ==
  /\ pc = "done"
  /\ window = 2
  /\ LET x == OutRowsOf("A")
     IN  /\ Len(x) = 3
         /\ x[1].High # x[1].Low
         /\ x[2].High = x[2].Low
         /\ x[3].High = x[3].Low
         /\ IsNaN(x[1].vol_pk)
         /\ x[2].vol_pk.v > 0
         /\ x[3].vol_pk = Root(0)

====
